---- MODULE Spec2Model ----
(***************************************************************************)
(* Model of the self-healing code agent: the patch applier                 *)
(* (services/patch_applier.py), the repair loop of the manager             *)
(* (agents/manager_agent.py) and the risk-gated approval of                *)
(* integrations/git_auto_healer.py together with the /api/approve          *)
(* endpoint of interface/api.py.                                           *)
(*                                                                         *)
(* A file content is the list its text splits into at "\n"                 *)
(* (original.split('\n')); every text is exactly one non-empty list, so    *)
(* "a\nb\n" is <<"a", "b", "">> and the empty file is <<"">>.              *)
(***************************************************************************)
EXTENDS Integers, Sequences, FiniteSets, TLC

\* ------------------------------------------------------------------ bounds
MaxRuns == 1
MaxFixes == 2
MaxN == 2
MaxOps == 2
MaxRedeliver == 1
MaxCalls == 3
MaxLen == 3

\* --------------------------------------------------------------- constants
RunIds == 1..(MaxRuns + MaxFixes)
Files == {"f1", "f2"}
\* one Timer object per low-risk delivery
Timers == 1..(MaxRuns + MaxFixes + MaxRedeliver)
Op == 0
Threads == Timers \cup {Op}
None == 0

\* ------------------------------------------------ python list primitives
\* faulty variant of del: the element after index i is removed
PyDel_next(lst, i) ==
    LET n == Len(lst)
        j == (IF i < 0 THEN i + n ELSE i) + 1
    IN  IF j < 0 \/ j >= n
        THEN [err |-> TRUE, lst |-> lst]
        ELSE [err |-> FALSE,
              lst |-> SubSeq(lst, 1, j) \o SubSeq(lst, j + 2, n)]

\* del lst[i] with Python's index rules: a negative index counts from the
\* end, an index outside the list raises IndexError ("err").
PyDel(lst, i) ==
    LET n == Len(lst)
        j == IF i < 0 THEN i + n ELSE i
    IN  IF j < 0 \/ j >= n
        THEN [err |-> TRUE, lst |-> lst]
        ELSE [err |-> FALSE,
              lst |-> SubSeq(lst, 1, j) \o SubSeq(lst, j + 2, n)]

\* faulty variant of insert: x goes in front of the element before index i
PyInsert_before(lst, i, x) ==
    LET n == Len(lst)
        j == IF i - 1 < 0 THEN 0 ELSE IF i - 1 > n THEN n ELSE i - 1
    IN  SubSeq(lst, 1, j) \o <<x>> \o SubSeq(lst, j + 1, n)

\* lst.insert(i, x): the index is clamped into 0..len, never an error.
PyInsert(lst, i, x) ==
    LET n == Len(lst)
        j0 == IF i < 0 THEN i + n ELSE i
        j == IF j0 < 0 THEN 0 ELSE IF j0 > n THEN n ELSE j0
    IN  SubSeq(lst, 1, j) \o <<x>> \o SubSeq(lst, j + 1, n)

\* ---------------------------------------------------------- patch parsing
\* A line of patch text is [m, t, new]: m is what the line starts with
\* ("@@" for a header matching the hunk regex, "+++" and "---" for file
\*  headers, "+", "-", " " for hunk body lines, "?" for anything else),
\* t the text after the first character, new the +start of a header.
Hdr(n) == [m |-> "@@", t |-> "", new |-> n]
Add(s) == [m |-> "+", t |-> s, new |-> 0]
Rem(s) == [m |-> "-", t |-> s, new |-> 0]
Ctx(s) == [m |-> " ", t |-> s, new |-> 0]
Oth(mk) == [m |-> mk, t |-> "", new |-> 0]

RECURSIVE ParseFrom(_, _, _, _)
ParseFrom(patch, k, hunks, cur) ==
    IF k > Len(patch)
    THEN IF cur = <<>> THEN hunks ELSE hunks \o cur
    ELSE LET line == patch[k] IN
         IF line.m = "@@"
         THEN ParseFrom(patch, k + 1,
                        IF cur = <<>> THEN hunks ELSE hunks \o cur,
                        <<[start_line |-> line.new, changes |-> <<>>]>>)
         ELSE IF cur = <<>>
         THEN ParseFrom(patch, k + 1, hunks, cur)
         ELSE LET ty == IF line.m = "+" THEN "add"
                        ELSE IF line.m = "-" THEN "remove"
                        ELSE IF line.m = " " THEN "context"
                        ELSE "skip"
              IN  IF ty = "skip"
                  THEN ParseFrom(patch, k + 1, hunks, cur)
                  ELSE ParseFrom(patch, k + 1, hunks,
                         <<[cur[1] EXCEPT !.changes =
                              Append(@, [type |-> ty, line |-> line.t])]>>)

\* cur is <<>> for current_hunk = None and <<hunk>> otherwise
_parse_patch_hunks(patch) == ParseFrom(patch, 1, <<>>, <<>>)

\* ------------------------------------------------------- patch application
RECURSIVE ApplyChanges(_, _, _)
\* st = [lines, start, offset, err]: the loop body of lines 209-218
ApplyChanges(changes, k, st) ==
    IF k > Len(changes) \/ st.err
    THEN st
    ELSE LET ch == changes[k] IN
         IF ch.type = "remove"
         THEN LET d == PyDel(st.lines, st.start) IN
              ApplyChanges(changes, k + 1,
                  [st EXCEPT !.lines = d.lst, !.err = d.err,
                             !.offset = IF d.err THEN @ ELSE @ - 1])
         ELSE IF ch.type = "add"
         THEN ApplyChanges(changes, k + 1,
                  [st EXCEPT !.lines = PyInsert(st.lines, st.start, ch.line),
                             !.start = @ + 1, !.offset = @ + 1])
         ELSE ApplyChanges(changes, k + 1, [st EXCEPT !.start = @ + 1])

RECURSIVE ApplyHunks(_, _, _)
ApplyHunks(hunks, h, st) ==
    IF h > Len(hunks) \/ st.err
    THEN st
    ELSE ApplyHunks(hunks, h + 1,
            ApplyChanges(hunks[h].changes, 1,
                [st EXCEPT !.start = hunks[h].start_line - 1 + st.offset]))

\* [err, lines]: err is the IndexError of del, lines the joined result
_apply_patch_to_string(original, patch) ==
    LET st == ApplyHunks(_parse_patch_hunks(patch), 1,
                  [lines |-> original, start |-> 0, offset |-> 0,
                   err |-> FALSE])
    IN  [err |-> st.err, lines |-> st.lines]

\* ast.parse of the patched text: the oracle rejects a text holding the
\* line "(" and accepts every other text of the model's vocabulary.
SyntaxOK(lines) == \A i \in 1..Len(lines) : lines[i] # "("

\* faulty variant of dry_apply: the ast.parse step is left out
dry_apply_no_syntax(patch, content) ==
    LET r == _apply_patch_to_string(content, patch) IN
    IF r.err THEN [success |-> FALSE, error |-> "exception",
                   new_content |-> <<>>]
    ELSE [success |-> TRUE, error |-> "", new_content |-> r.lines]

\* dry_apply on the content read from the target file
dry_apply(patch, content) ==
    LET r == _apply_patch_to_string(content, patch) IN
    IF r.err THEN [success |-> FALSE, error |-> "exception",
                   new_content |-> <<>>]
    ELSE IF SyntaxOK(r.lines)
    THEN [success |-> TRUE, error |-> "", new_content |-> r.lines]
    ELSE [success |-> FALSE, error |-> "syntax", new_content |-> r.lines]

\* the patch texts the fixer may return
PAdd == <<Oth("---"), Oth("+++"), Hdr(1), Ctx("a"), Add("x")>>
PBad == <<Hdr(1), Add("(")>>
POob == <<Hdr(4), Rem("z")>>
\* a patch of 26 added lines
PBig == <<Hdr(1)>> \o [k \in 1..26 |-> Add("x")]
Patches == {PAdd, PBad, POob, PBig}

\* FixerAgent._extract_patch_metadata: lines_changed is the number of
\* added and removed lines of the patch text
_extract_patch_metadata(patch) ==
    Cardinality({k \in 1..Len(patch) : patch[k].m \in {"+", "-"}})

\* config healing.max_patch_lines and the size limit of auto-merge
max_patch_lines == 25
auto_merge_lines == 10
InitialContent == <<"a", "">>

\* ------------------------------------------------------------------- state
VARIABLES
    files,              \* target file -> content on disk
    backups,            \* backup_dir: <<[file, content]>>, the .backup/.meta
    current_backup,     \* PatchApplier.current_backup (index or None)
    consumed,           \* history: backups used up by a rollback or commit
    max_attempts,       \* ManagerAgent.max_attempts
    repo,               \* GitAutoHealer.repo is not None
    run,                \* frame of the heal invocation of the watcher
                        \* thread (the one in progress or the last one)
    logged,             \* ExperimentLogger: run id -> completed run
    pending_approvals,  \* run id -> ticket
    approval_timers,    \* run id -> Timer object or None
    nTimers,            \* Timer objects created so far
    th,                 \* thread -> frame of approve_and_push / approve_patch
    resolvedBy,         \* history: who first finished resolving the ticket
    acted,              \* history: threads that committed, pushed or
                        \*          rolled back for the ticket
    budget,             \* calls left: [ops, redeliver]
    client,             \* last call a client made on the PatchApplier itself
    diff                \* a call of _apply_patch_to_string: arguments, result

vars == <<files, backups, current_backup, consumed, max_attempts,
          repo, run, logged, pending_approvals, approval_timers, nTimers,
          th, resolvedBy, acted, budget, client, diff>>

applierVars == <<files, backups, current_backup, consumed>>
approvalVars == <<pending_approvals, approval_timers, nTimers, th,
                  resolvedBy, acted>>

healVars == <<run, logged>>

NoTicket == [present |-> FALSE, file |-> "", risk |-> "", pre |-> <<>>]
\* attempts: the attempt records in the details of the completed run
NoLog == [status |-> "", file |-> "", pre |-> <<>>, attempts |-> <<>>]
\* history of the last attempt; rollback is "ok" or "failed" when the
\* attempt called rollback()
NoAttempt == [wrote |-> FALSE, backup |-> "none", status |-> "",
              auto_merged |-> FALSE, rollback |-> "none"]
IdleRun == [id |-> 0, pc |-> "idle", file |-> "", attempt |-> 0,
            previous_attempts |-> <<>>, patch |-> <<>>,
            new_content |-> <<>>, bk |-> None, start |-> <<>>,
            pre |-> <<>>, restores |-> 0, last |-> NoAttempt,
            status |-> ""]
IdleThread == [pc |-> "idle", run |-> None, approved |-> FALSE,
               auto |-> FALSE, api |-> FALSE, file |-> "", risk |-> "",
               late |-> FALSE, ret |-> ""]

NoCall == [n |-> 0, op |-> "", file |-> "", pre |-> <<>>,
           success |-> FALSE, message |-> ""]

\* the state after construction, but for the content of the target files
InitObjects ==
    /\ backups = <<>>
    /\ current_backup = None
    /\ consumed = {}
    /\ max_attempts \in 1..MaxN
    /\ repo \in BOOLEAN
    /\ run = IdleRun
    /\ logged = [r \in RunIds |-> NoLog]
    /\ pending_approvals = [r \in RunIds |-> NoTicket]
    /\ approval_timers = [r \in RunIds |-> None]
    /\ nTimers = 0
    /\ th = [t \in Threads |-> IdleThread]
    /\ resolvedBy = [r \in RunIds |-> "none"]
    /\ acted = [r \in RunIds |-> {}]
    /\ budget = [ops |-> MaxOps, redeliver |-> MaxRedeliver]
    /\ client = NoCall

\* done, err, lines: the patch applied to original; done2, err2, lines2:
\* the same patch applied once more, to lines
NoDiff == [original |-> <<>>, patch |-> <<>>, done |-> FALSE,
           err |-> FALSE, lines |-> <<>>, done2 |-> FALSE,
           err2 |-> FALSE, lines2 |-> <<>>]

Init ==
    /\ files = [f \in Files |-> InitialContent]
    /\ InitObjects
    /\ diff = NoDiff

\* ------------------------------------------------------------ PatchApplier
\* faulty variant of _create_backup: the copy is made line by line and
\* always ends with a newline
_create_backup_text(f) ==
    LET c == files[f]
        t == IF c[Len(c)] = "" THEN c ELSE Append(c, "")
    IN  [idx |-> Len(backups) + 1,
         backups |-> Append(backups, [file |-> f, content |-> t])]

\* _create_backup: the copy is named <basename>_<timestamp>.backup with a
\* .meta file naming the original. The applies of the model fall into
\* different seconds, so that every backup gets a path of its own.
_create_backup(f) ==
    [idx |-> Len(backups) + 1,
     backups |-> Append(backups, [file |-> f, content |-> files[f]])]

\* faulty variant of rollback: the backup is not copied back
rollback_keeps_file(io) ==
    IF current_backup = None
    THEN [success |-> FALSE, message |-> "No backup available",
          files |-> files, current_backup |-> None, consumed |-> consumed]
    ELSE [success |-> TRUE, message |-> "Rollback successful",
          files |-> files, current_backup |-> None,
          consumed |-> consumed \cup {current_backup}]

\* rollback(): io is FALSE when reading the metadata or copying fails
rollback(io) ==
    IF current_backup = None
    THEN [success |-> FALSE, message |-> "No backup available",
          files |-> files, current_backup |-> None, consumed |-> consumed]
    ELSE IF io
    THEN [success |-> TRUE, message |-> "Rollback successful",
          files |-> [files EXCEPT ![backups[current_backup].file] =
                        backups[current_backup].content],
          current_backup |-> None,
          consumed |-> consumed \cup {current_backup}]
    ELSE [success |-> FALSE, message |-> "error", files |-> files,
          current_backup |-> current_backup, consumed |-> consumed]

\* commit(): git is FALSE when git commit or rev-parse fails
commit(git) ==
    IF git
    THEN [success |-> TRUE, current_backup |-> None,
          consumed |-> IF current_backup = None THEN consumed
                       ELSE consumed \cup {current_backup}]
    ELSE [success |-> FALSE, current_backup |-> current_backup,
          consumed |-> consumed]

restVars == <<max_attempts, repo, client, diff>>

\* ------------------------------------------------------------ GitAutoHealer
\* _determine_risk_level; confidence in percent, explicit is
\* evaluation['risk_level'] or "absent"
_determine_risk_level(explicit, lines_changed, confidence) ==
    IF explicit # "absent" THEN explicit
    ELSE IF lines_changed > 20 \/ confidence < 70 THEN "HIGH"
    ELSE IF lines_changed > 10 \/ confidence < 85 THEN "MEDIUM"
    ELSE "LOW"

RiskInputs == {"absent", "LOW", "MEDIUM", "HIGH"} \X {3, 15, 25} \X {60, 80, 90}

\* faulty variant of handle_healing_result: no Timer is started
handle_healing_result_no_timer(r, f, risk, pre) ==
    [pending_approvals |->
         [pending_approvals EXCEPT ![r] =
             [present |-> TRUE, file |-> f, risk |-> risk, pre |-> pre]],
     approval_timers |-> approval_timers,
     nTimers |-> nTimers,
     th |-> th,
     resolvedBy |-> [resolvedBy EXCEPT ![r] = "none"],
     acted |-> [acted EXCEPT ![r] = {}]]

\* handle_healing_result for a SUCCESS result: _handle_low_risk_push stores
\* the ticket and starts a Timer, _handle_high_risk_push only stores it.
\* Gives the new values of the approval state.
handle_healing_result(r, f, risk, pre) ==
    LET t == nTimers + 1
        low == risk = "LOW"
    IN  [pending_approvals |->
             [pending_approvals EXCEPT ![r] =
                 [present |-> TRUE, file |-> f, risk |-> risk,
                  pre |-> pre]],
         approval_timers |->
             IF low THEN [approval_timers EXCEPT ![r] = t]
             ELSE approval_timers,
         nTimers |-> IF low THEN t ELSE nTimers,
         th |-> IF low
                THEN [th EXCEPT ![t] = [IdleThread EXCEPT !.pc = "armed",
                                                          !.run = r]]
                ELSE th,
         resolvedBy |-> [resolvedBy EXCEPT ![r] = "none"],
         acted |-> [acted EXCEPT ![r] = {}]]

\* ------------------------------------------------------------ ManagerAgent
\* restore_failure: the record says that a rollback failed; no key of the
\* records built at manager 373-383, 405-417 and 146-150 does
RetryRecord(phase) ==
    [status |-> "RETRY", phase |-> phase, strategy |-> TRUE,
     restore_failure |-> FALSE]
ErrorRecord ==
    [status |-> "ERROR", phase |-> "", strategy |-> FALSE,
     restore_failure |-> FALSE]

Last3(s) == SubSeq(s, IF Len(s) > 3 THEN Len(s) - 2 ELSE 1, Len(s))

\* PlannerAgent._build_planning_prompt reads att['strategy'] of the last
\* three attempts: the record heal appends for an exception has no such key
PlannerRaises(prev) ==
    \E i \in 1..Len(Last3(prev)) : ~Last3(prev)[i].strategy

\* heal, lines 72-103: start_run, analysis, entry of the loop. The runs are
\* those of auto_heal_file, which the observer thread of the file watcher
\* executes one after the other; run ids are fresh (uuid4).
StartHeal(r, f, analysis) ==
    LET fr == [IdleRun EXCEPT !.id = r, !.file = f, !.start = files[f]]
        status == IF analysis = "no_bugs" THEN "NO_BUGS_FOUND" ELSE "FAILED"
    IN
    /\ run.pc \in {"idle", "done"}
    /\ r = run.id + 1
    /\ IF analysis = "bugs"
       THEN /\ run' = [fr EXCEPT !.pc = "loop"]
            /\ UNCHANGED logged
       ELSE /\ run' = [fr EXCEPT !.pc = "done", !.status = status]
            /\ logged' = [logged EXCEPT ![r] =
                  [status |-> status, file |-> f, pre |-> <<>>,
                   attempts |-> <<>>]]
    /\ UNCHANGED <<applierVars, approvalVars, restVars, budget>>

\* one pass of the loop up to dry_apply (manager lines 105-301 and the
\* RETRY branch of heal, 135-150)
Iterate(r, ev, p) ==
    LET fr == run
        d == dry_apply(p, files[fr.file])
        failed(rec) ==
            [fr EXCEPT !.attempt = @ + 1,
                       !.previous_attempts = Append(@, rec),
                       !.last = [NoAttempt EXCEPT !.status = rec.status]]
    IN
    /\ fr.id = r
    /\ fr.pc = "loop"
    /\ fr.attempt < max_attempts
    /\ run' =
          IF PlannerRaises(fr.previous_attempts)
          THEN failed(ErrorRecord)
          ELSE IF ev = "null_plan"
          THEN failed(RetryRecord("planning"))
          ELSE IF ev = "gen_fail"
          THEN failed(RetryRecord("patch_generation"))
          ELSE IF ~d.success
          THEN failed(RetryRecord("validation"))
          ELSE [fr EXCEPT !.attempt = @ + 1, !.pc = "apply", !.patch = p,
                          !.new_content = d.new_content]
    /\ UNCHANGED <<applierVars, approvalVars, restVars, logged, budget>>

\* the target files of the model exist and are readable: the early returns
\* of phases file_validation and file_reading (226-253) are not taken
PlanEvents == {"null_plan", "gen_fail", "patch"}

\* faulty variant of Apply: the validated content is written without a
\* backup of the file
Apply_no_backup(r, io) ==
    /\ run.id = r
    /\ run.pc = "apply"
    /\ files' = [files EXCEPT ![run.file] = run.new_content]
    /\ run' = [run EXCEPT !.pc = "test", !.pre = files[run.file]]
    /\ UNCHANGED <<backups, current_backup, consumed>>
    /\ UNCHANGED <<approvalVars, restVars, logged, budget>>

\* PatchApplier.apply called at manager line 305, outside the try block:
\* an exception goes to heal's handler (144-150). io is FALSE when the copy
\* of _create_backup fails.
Apply(r, io) ==
    LET fr == run
        f == fr.file
        b == _create_backup(f)
        res == _apply_patch_to_string(files[f], fr.patch)
        raised == [fr EXCEPT !.pc = "loop", !.patch = <<>>,
                             !.new_content = <<>>,
                             !.previous_attempts = Append(@, ErrorRecord),
                             !.last = [NoAttempt EXCEPT !.status = "ERROR"]]
    IN
    /\ fr.id = r
    /\ fr.pc = "apply"
    /\ IF ~io
       THEN /\ run' = raised
            /\ UNCHANGED applierVars
       ELSE /\ backups' = b.backups
            /\ UNCHANGED consumed
            /\ IF res.err
               THEN \* _restore_backup, then RuntimeError
                    /\ files' = [files EXCEPT ![f] = b.backups[b.idx].content]
                    /\ UNCHANGED current_backup
                    /\ run' = raised
               ELSE /\ files' = [files EXCEPT ![f] = res.lines]
                    /\ current_backup' = b.idx
                    /\ run' = [fr EXCEPT !.pc = "test", !.bk = b.idx,
                                         !.pre = files[f]]
    /\ UNCHANGED <<approvalVars, restVars, logged, budget>>

\* manager lines 307-417 (tests, critic, decision) and, for a RETRY, the
\* branch of heal that appends the record (135-142). out is what tester and
\* critic produce: "raise", or the verdict ("PASS_MERGE" is PASS with
\* should_auto_merge); io and git are the outcomes of the file copy of
\* rollback and of git commit. The critic's quick checks (68-101) answer
\* RETRY for failed tests, then ESCALATE for a patch of more than
\* max_patch_lines changed lines; should_auto_merge needs at most
\* auto_merge_lines (critic 156-161).
TestEvaluate(r, out, io, git) ==
    LET fr == [run EXCEPT !.patch = <<>>, !.new_content = <<>>]
        rb == rollback(io)
        c == commit(git)
        own == current_backup # None /\ current_backup = fr.bk
        rolled(status) ==
            [NoAttempt EXCEPT !.wrote = TRUE, !.status = status,
                              !.rollback = IF rb.success THEN "ok"
                                           ELSE "failed",
                              !.backup = IF rb.success /\ own
                                         THEN "restored" ELSE "live"]
        count == IF rb.success THEN fr.restores + 1 ELSE fr.restores
    IN
    /\ fr.id = r
    /\ fr.pc = "test"
    /\ _extract_patch_metadata(run.patch) > max_patch_lines
           => out \in {"raise", "RETRY", "ESCALATE"}
    /\ out = "PASS_MERGE"
           => _extract_patch_metadata(run.patch) <= auto_merge_lines
    /\ UNCHANGED backups
    /\ IF out \in {"raise", "RETRY", "ESCALATE"}
       THEN /\ files' = rb.files
            /\ current_backup' = rb.current_backup
            /\ consumed' = rb.consumed
       ELSE IF out = "PASS_MERGE"
       THEN /\ current_backup' = c.current_backup
            /\ consumed' = c.consumed
            /\ UNCHANGED files
       ELSE UNCHANGED <<files, current_backup, consumed>>
    /\ run' =
          IF out = "raise"
          THEN [fr EXCEPT !.pc = "loop", !.restores = count,
                          !.previous_attempts =
                              Append(@, RetryRecord("unknown")),
                          !.last = rolled("RETRY")]
          ELSE IF out = "RETRY"
          THEN [fr EXCEPT !.pc = "loop", !.restores = count,
                          !.previous_attempts = Append(@, RetryRecord("")),
                          !.last = rolled("RETRY")]
          ELSE IF out = "ESCALATE"
          THEN [fr EXCEPT !.pc = "finish", !.restores = count,
                          !.last = rolled("ESCALATE")]
          ELSE IF out = "PASS_MERGE"
          THEN [fr EXCEPT !.pc = "finish",
                          !.last = [NoAttempt EXCEPT
                              !.wrote = TRUE, !.status = "SUCCESS",
                              !.auto_merged = TRUE,
                              !.backup = IF c.success /\ own
                                         THEN "discarded" ELSE "live"]]
          ELSE [fr EXCEPT !.pc = "finish",
                          !.last = [NoAttempt EXCEPT
                              !.wrote = TRUE, !.status = "SUCCESS",
                              !.backup = "live"]]
    /\ UNCHANGED <<approvalVars, restVars, logged, budget>>

Verdicts == {"raise", "PASS_MERGE", "PASS", "RETRY", "ESCALATE"}

\* heal lines 120-133 and 144-150, _complete_run, and the call of
\* handle_healing_result in auto_heal_file. book is FALSE when
\* record_success, a notification or the run log raises: the handler of
\* the attempt (144) catches it and the loop goes on.
Finish(r, book, ri) ==
    LET fr == run
        risk == _determine_risk_level(ri[1], ri[2], ri[3])
        h == handle_healing_result(r, fr.file, risk, fr.pre)
        status == IF fr.last.status = "SUCCESS" THEN "SUCCESS"
                  ELSE "ESCALATED"
    IN
    /\ fr.id = r
    /\ fr.pc = "finish"
    /\ IF ~book
       THEN /\ run' = [fr EXCEPT !.pc = "loop",
                          !.previous_attempts = Append(@, ErrorRecord)]
            /\ UNCHANGED <<approvalVars, logged>>
       ELSE /\ run' = [fr EXCEPT !.pc = "done", !.status = status]
            /\ logged' = [logged EXCEPT ![r] =
                  [status |-> status, file |-> fr.file, pre |-> fr.pre,
                   attempts |-> <<>>]]
            /\ IF status = "SUCCESS"
               THEN /\ pending_approvals' = h.pending_approvals
                    /\ approval_timers' = h.approval_timers
                    /\ nTimers' = h.nTimers
                    /\ th' = h.th
                    /\ resolvedBy' = h.resolvedBy
                    /\ acted' = h.acted
               ELSE UNCHANGED approvalVars
    /\ UNCHANGED <<applierVars, restVars, budget>>

\* heal lines 105 and 152-156: the loop ends with attempt = max_attempts
Exhaust(r) ==
    /\ run.id = r
    /\ run.pc = "loop"
    /\ run.attempt >= max_attempts
    /\ run' = [run EXCEPT !.pc = "done", !.status = "MAX_ATTEMPTS_REACHED"]
    /\ logged' = [logged EXCEPT ![r] =
          [status |-> "MAX_ATTEMPTS_REACHED", file |-> run.file,
           pre |-> <<>>, attempts |-> run.previous_attempts]]
    /\ UNCHANGED <<applierVars, approvalVars, restVars, budget>>

\* handle_healing_result called again with a SUCCESS result of the same
\* run_id and another risk level (tests/test_auto_healing.py, 58 and 72)
Redeliver(r, ri) ==
    LET h == handle_healing_result(r, logged[r].file,
                 _determine_risk_level(ri[1], ri[2], ri[3]), logged[r].pre)
    IN
    /\ logged[r].status = "SUCCESS"
    /\ budget.redeliver > 0
    /\ budget' = [budget EXCEPT !.redeliver = @ - 1]
    /\ pending_approvals' = h.pending_approvals
    /\ approval_timers' = h.approval_timers
    /\ nTimers' = h.nTimers
    /\ th' = h.th
    /\ resolvedBy' = h.resolvedBy
    /\ acted' = h.acted
    /\ UNCHANGED <<applierVars, restVars, healVars>>

\* ------------------------------------------- approve_and_push, by thread
Who(t) == IF t = Op THEN "manual" ELSE "timer"

\* approve_and_push lines 215-224 for a ticket that is present: fetch the
\* ticket, cancel and forget the Timer registered under the run id.
\* Gives the new th and approval_timers.
Enter(t, r, approved, auto) ==
    LET k == approval_timers[r]
        frame == [IdleThread EXCEPT
                     !.pc = IF approved THEN "commit" ELSE "reject",
                     !.run = r, !.approved = approved, !.auto = auto,
                     !.file = pending_approvals[r].file,
                     !.risk = pending_approvals[r].risk,
                     !.late = resolvedBy[r] # "none"]
        th1 == [th EXCEPT ![t] = frame]
    IN  [th |-> IF k # None /\ k # t /\ th[k].pc = "armed"
                THEN [th1 EXCEPT ![k].pc = "cancelled"]
                ELSE th1,
         approval_timers |-> [approval_timers EXCEPT ![r] = None]]

\* the frame of a call that has returned; a finished Timer thread is gone
Returned(t, r, ret) ==
    IF t = Op THEN [th[t] EXCEPT !.pc = "done", !.ret = ret]
    ELSE [IdleThread EXCEPT !.pc = "done", !.run = r]

\* the Timer thread wakes up uncancelled and runs
\* _auto_push_after_timeout (198-210) into approve_and_push(auto=True)
TimerFire(t) ==
    LET r == th[t].run
        e == Enter(t, r, TRUE, TRUE)
    IN
    /\ t \in Timers
    /\ th[t].pc = "armed"
    /\ IF pending_approvals[r].present
       THEN /\ th' = e.th
            /\ approval_timers' = e.approval_timers
       ELSE /\ th' = [th EXCEPT ![t] = Returned(t, r, "not_pending")]
            /\ UNCHANGED approval_timers
    /\ UNCHANGED <<applierVars, restVars, healVars, pending_approvals, nTimers,
                   resolvedBy, acted, budget>>

\* a manual approve_and_push(run_id, approved), e.g. through
\* /api/auto-healing/approve (api.py 315-320)
OpCall(r, approved) ==
    LET e == Enter(Op, r, approved, FALSE) IN
    /\ th[Op].pc \in {"idle", "done"}
    /\ budget.ops > 0
    /\ r <= run.id
    /\ budget' = [budget EXCEPT !.ops = @ - 1]
    /\ IF pending_approvals[r].present
       THEN /\ th' = e.th
            /\ approval_timers' = e.approval_timers
       ELSE /\ th' = [th EXCEPT ![Op] =
                  [IdleThread EXCEPT !.pc = "done", !.run = r,
                                     !.approved = approved,
                                     !.late = resolvedBy[r] # "none",
                                     !.ret = "not_found"]]
            /\ UNCHANGED approval_timers
    /\ UNCHANGED <<applierVars, restVars, healVars, pending_approvals, nTimers,
                   resolvedBy, acted>>

Resolve(r, t) ==
    IF resolvedBy[r] = "none" THEN [resolvedBy EXCEPT ![r] = Who(t)]
    ELSE resolvedBy

\* approve_and_push lines 226-231; del raises KeyError when another thread
\* has removed the ticket
Reject(t, io) ==
    LET r == th[t].run
        rb == rollback(io)
    IN
    /\ th[t].pc = "reject"
    /\ files' = rb.files
    /\ current_backup' = rb.current_backup
    /\ consumed' = rb.consumed
    /\ acted' = [acted EXCEPT ![r] = @ \cup {t}]
    /\ resolvedBy' = Resolve(r, t)
    /\ pending_approvals' = [pending_approvals EXCEPT ![r] = NoTicket]
    /\ th' = [th EXCEPT ![t] =
          Returned(t, r, IF pending_approvals[r].present
                         THEN "rejected" ELSE "KeyError")]
    /\ UNCHANGED <<backups, restVars, healVars, approval_timers, nTimers,
                   budget>>

\* line 243: patch_applier.commit is entered (git add, git commit run as
\* subprocesses; other threads run meanwhile)
CommitBegin(t) ==
    LET r == th[t].run IN
    /\ th[t].pc = "commit"
    /\ th' = [th EXCEPT ![t].pc = "committing"]
    /\ acted' = IF th[t].api THEN acted
                ELSE [acted EXCEPT ![r] = @ \cup {t}]
    /\ UNCHANGED <<applierVars, restVars, healVars, pending_approvals,
                   approval_timers, nTimers, resolvedBy, budget>>

\* commit returns: patch_applier 150-176, then approve_and_push 248-252 and
\* 280-282, or approve_patch 120-125. Without a repository object the
\* function falls off its end after a successful commit and returns None.
CommitEnd(t, git) ==
    LET r == th[t].run
        c == commit(git)
    IN
    /\ th[t].pc = "committing"
    /\ current_backup' = c.current_backup
    /\ consumed' = c.consumed
    /\ IF th[t].api
       THEN /\ th' = [th EXCEPT ![t] = Returned(t, r, "approved")]
            /\ UNCHANGED resolvedBy
       ELSE IF ~c.success
       THEN /\ th' = [th EXCEPT ![t] = Returned(t, r, "commit_failed")]
            /\ resolvedBy' = Resolve(r, t)
       ELSE IF repo
       THEN /\ th' = [th EXCEPT ![t].pc = "push"]
            /\ UNCHANGED resolvedBy
       ELSE /\ th' = [th EXCEPT ![t] = Returned(t, r, "None")]
            /\ resolvedBy' = Resolve(r, t)
    /\ UNCHANGED <<files, backups, restVars, healVars, pending_approvals,
                   approval_timers, nTimers, acted, budget>>

\* lines 253-279: _push_to_remote, and on success the notification, the
\* removal of the ticket (KeyError when it is gone) and the result
Push(t, ok) ==
    LET r == th[t].run IN
    /\ th[t].pc = "push"
    /\ resolvedBy' = Resolve(r, t)
    /\ IF ok
       THEN /\ pending_approvals' =
                  [pending_approvals EXCEPT ![r] = NoTicket]
            /\ th' = [th EXCEPT ![t] =
                  Returned(t, r, IF pending_approvals[r].present
                                 THEN "committed_and_pushed"
                                 ELSE "KeyError")]
       ELSE /\ th' = [th EXCEPT ![t] = Returned(t, r, "push_failed")]
            /\ UNCHANGED pending_approvals
    /\ UNCHANGED <<applierVars, restVars, healVars, approval_timers, nTimers,
                   acted, budget>>

\* /api/approve (api.py 102-134): needs only a logged run; commits or
\* rolls back through the shared patch applier without looking at the
\* ticket
ApiCall(r, approved, io) ==
    LET rb == rollback(io) IN
    /\ th[Op].pc \in {"idle", "done"}
    /\ budget.ops > 0
    /\ r <= run.id
    /\ budget' = [budget EXCEPT !.ops = @ - 1]
    /\ IF approved
       THEN /\ th' = [th EXCEPT ![Op] =
                  [IdleThread EXCEPT !.pc = "commit", !.run = r,
                                     !.approved = TRUE, !.api = TRUE]]
            /\ UNCHANGED applierVars
       ELSE /\ th' = [th EXCEPT ![Op] =
                  [IdleThread EXCEPT !.pc = "done", !.run = r,
                                     !.api = TRUE, !.ret = "rejected"]]
            /\ files' = rb.files
            /\ current_backup' = rb.current_backup
            /\ consumed' = rb.consumed
            /\ UNCHANGED backups
    /\ UNCHANGED <<restVars, healVars, pending_approvals, approval_timers,
                   nTimers, resolvedBy, acted>>

\* ------------------------------------- the PatchApplier called on its own
\* A client (a unit test, a script) calls apply, rollback and commit of one
\* PatchApplier directly; client holds what the last call was given and
\* what it returned.
CallApply(f, p) ==
    LET b == _create_backup(f)
        res == _apply_patch_to_string(files[f], p)
        call == [n |-> client.n + 1, op |-> "apply", file |-> f,
                 pre |-> files[f], success |-> ~res.err,
                 message |-> IF res.err THEN "RuntimeError"
                             ELSE "Patch applied"]
    IN
    /\ client.n < MaxCalls
    /\ client' = call
    /\ backups' = b.backups
    /\ UNCHANGED consumed
    /\ IF res.err
       THEN /\ files' = [files EXCEPT ![f] = b.backups[b.idx].content]
            /\ UNCHANGED current_backup
       ELSE /\ files' = [files EXCEPT ![f] = res.lines]
            /\ current_backup' = b.idx
    /\ UNCHANGED <<approvalVars, healVars, max_attempts, repo, budget, diff>>

CallRollback(io) ==
    LET rb == rollback(io) IN
    /\ client.n < MaxCalls
    /\ client' = [client EXCEPT !.n = @ + 1, !.op = "rollback",
                                !.success = rb.success,
                                !.message = rb.message]
    /\ files' = rb.files
    /\ current_backup' = rb.current_backup
    /\ consumed' = rb.consumed
    /\ UNCHANGED <<backups, approvalVars, healVars, max_attempts, repo,
                   budget, diff>>

CallCommit(git) ==
    LET c == commit(git) IN
    /\ client.n < MaxCalls
    /\ client' = [client EXCEPT !.n = @ + 1, !.op = "commit",
                                !.success = c.success,
                                !.message = IF c.success THEN "committed"
                                            ELSE "error"]
    /\ current_backup' = c.current_backup
    /\ consumed' = c.consumed
    /\ UNCHANGED <<files, backups, approvalVars, healVars, max_attempts,
                   repo, budget, diff>>

\* ----------------------------------------------------------- specification
HealRuns == 1..MaxRuns
FixRuns == 1..MaxFixes

\* The repair loop with every outcome of the collaborators, of the file
\* system and of git.
Next ==
    \/ \E r \in HealRuns, f \in Files, a \in {"bugs", "no_bugs", "raise"} :
           StartHeal(r, f, a)
    \/ \E r \in HealRuns, ev \in PlanEvents, p \in Patches : Iterate(r, ev, p)
    \/ \E r \in HealRuns, io \in BOOLEAN : Apply(r, io)
    \/ \E r \in HealRuns, out \in Verdicts, io \in BOOLEAN, git \in BOOLEAN :
           TestEvaluate(r, out, io, git)
    \/ \E r \in HealRuns, book \in BOOLEAN, ri \in RiskInputs :
           Finish(r, book, ri)
    \/ \E r \in HealRuns : Exhaust(r)

Spec == Init /\ [][Next]_vars

\* The same loop on a working file system with collaborators that do not
\* fail outside their contract (copies succeed, bookkeeping does not raise).
NextStub ==
    \/ \E r \in HealRuns, f \in Files : StartHeal(r, f, "bugs")
    \/ \E r \in HealRuns, ev \in PlanEvents, p \in Patches : Iterate(r, ev, p)
    \/ \E r \in HealRuns : Apply(r, TRUE)
    \/ \E r \in HealRuns, out \in Verdicts, git \in BOOLEAN :
           TestEvaluate(r, out, TRUE, git)
    \/ \E r \in HealRuns, ri \in RiskInputs : Finish(r, TRUE, ri)
    \/ \E r \in HealRuns : Exhaust(r)

SpecStub == Init /\ [][NextStub]_vars

\* The approval of a finished fix: a run that passes at its first attempt
\* delivers its result; the Timer thread, the operator's requests and a
\* second delivery under the same run id interleave step by step.
InitApproval == Init /\ max_attempts = 1

NextApproval ==
    \/ \E r \in HealRuns, f \in Files : StartHeal(r, f, "bugs")
    \/ \E r \in HealRuns : Iterate(r, "patch", PAdd)
    \/ \E r \in HealRuns : Apply(r, TRUE)
    \/ \E r \in HealRuns, out \in {"PASS", "PASS_MERGE"}, git \in BOOLEAN :
           TestEvaluate(r, out, TRUE, git)
    \/ \E r \in HealRuns, ri \in RiskInputs : Finish(r, TRUE, ri)
    \/ \E r \in HealRuns, ri \in RiskInputs : Redeliver(r, ri)
    \/ \E t \in Timers : TimerFire(t)
    \/ \E r \in HealRuns, approved \in BOOLEAN : OpCall(r, approved)
    \/ \E r \in HealRuns, approved \in BOOLEAN, io \in BOOLEAN :
           ApiCall(r, approved, io)
    \/ \E t \in Threads, io \in BOOLEAN : Reject(t, io)
    \/ \E t \in Threads : CommitBegin(t)
    \/ \E t \in Threads, git \in BOOLEAN : CommitEnd(t, git)
    \/ \E t \in Threads, ok \in BOOLEAN : Push(t, ok)

SpecApproval == InitApproval /\ [][NextApproval]_vars

\* Several fixes one after the other through the one shared PatchApplier,
\* each run of a single attempt, with the operator's decisions in between
\* (no Timer expires meanwhile).
NextFixes ==
    \/ \E r \in FixRuns, f \in Files : StartHeal(r, f, "bugs")
    \/ \E r \in FixRuns : Iterate(r, "patch", PAdd)
    \/ \E r \in FixRuns : Apply(r, TRUE)
    \/ \E r \in FixRuns, out \in Verdicts, io \in BOOLEAN, git \in BOOLEAN :
           TestEvaluate(r, out, io, git)
    \/ \E r \in FixRuns, ri \in RiskInputs : Finish(r, TRUE, ri)
    \/ \E r \in FixRuns : Exhaust(r)
    \/ \E r \in FixRuns, approved \in BOOLEAN : OpCall(r, approved)
    \/ \E io \in BOOLEAN : Reject(Op, io)
    \/ CommitBegin(Op)
    \/ \E git \in BOOLEAN : CommitEnd(Op, git)
    \/ \E ok \in BOOLEAN : Push(Op, ok)

SpecFixes == InitApproval /\ [][NextFixes]_vars

\* A fix that nobody decides on: the run (on a working file system)
\* delivers its result and only the Timer thread acts, in a repository
\* where the git commit and the push of approve_and_push succeed. A
\* started Timer thread keeps being scheduled.
InitTimer == Init /\ repo

TimerThread(t) ==
    \/ TimerFire(t)
    \/ CommitBegin(t)
    \/ CommitEnd(t, TRUE)
    \/ Push(t, TRUE)

NextTimer ==
    \/ \E r \in HealRuns, f \in Files : StartHeal(r, f, "bugs")
    \/ \E r \in HealRuns, ev \in PlanEvents, p \in Patches : Iterate(r, ev, p)
    \/ \E r \in HealRuns : Apply(r, TRUE)
    \/ \E r \in HealRuns, out \in Verdicts, git \in BOOLEAN :
           TestEvaluate(r, out, TRUE, git)
    \/ \E r \in HealRuns, ri \in RiskInputs : Finish(r, TRUE, ri)
    \/ \E r \in HealRuns : Exhaust(r)
    \/ \E t \in Timers : TimerThread(t)

SpecTimer ==
    /\ InitTimer
    /\ [][NextTimer]_vars
    /\ \A t \in Timers : WF_vars(TimerThread(t))

\* The PatchApplier alone, on target files of any content: the empty
\* file, a text without and with a final newline, two lines.
Contents == {<<"">>, <<"a">>, <<"a", "">>, <<"a", "b">>}

InitApplier ==
    /\ files \in [Files -> Contents]
    /\ InitObjects
    /\ diff = NoDiff
    /\ max_attempts = 1
    /\ repo

NextApplier ==
    \/ \E f \in Files, p \in Patches : CallApply(f, p)
    \/ \E io \in BOOLEAN : CallRollback(io)
    \/ \E git \in BOOLEAN : CallCommit(git)

SpecApplier == InitApplier /\ [][NextApplier]_vars

\* _apply_patch_to_string as a function of its arguments: texts of up to
\* MaxLen lines and the text of the scenario, patched by one hunk that is a
\* context line followed by added lines, or two removed lines followed by
\* two added lines, or one removed line at any declared start (0 and one
\* past the end included), or by two hunks of a context line and an added
\* line each.
Texts ==
    UNION {[1..n -> {"a", "b"}] : n \in 1..MaxLen}
        \cup {<<"a", "def f():", "b", "">>}

AddedLines == {"x", "y", "    x = 1", "    y = 2"}
Adds == {<<x>> : x \in AddedLines}
            \cup {<<x, y>> : x \in {"x", "    x = 1"}, y \in {"y", "    y = 2"}}

\* the patch text: the header, the body lines and the empty last line that
\* split gives for a text ending in a newline
ContextThenAdds(n, c, adds) ==
    <<Hdr(n), Ctx(c)>> \o [k \in 1..Len(adds) |-> Add(adds[k])]
        \o <<Oth("?")>>

RemovesThenAdds(n, r1, r2, adds) ==
    <<Hdr(n), Rem(r1), Rem(r2)>> \o [k \in 1..Len(adds) |-> Add(adds[k])]
        \o <<Oth("?")>>

RemoveAt(n, r) == <<Hdr(n), Rem(r), Oth("?")>>

\* two hunks as a unified diff states them: the second header carries the
\* start in the new file, i.e. its start n2 in the original plus the line
\* the first hunk added
TwoHunks(n1, c1, x, n2, c2, y) ==
    <<Hdr(n1), Ctx(c1), Add(x), Hdr(n2 + 1), Ctx(c2), Add(y), Oth("?")>>

InitDiff ==
    /\ files = [f \in Files |-> InitialContent]
    /\ InitObjects
    /\ max_attempts = 1
    /\ repo
    /\ \E o \in Texts, adds \in Adds :
          \/ \E n \in 1..Len(o) :
                diff = [NoDiff EXCEPT !.original = o,
                          !.patch = ContextThenAdds(n, o[n], adds)]
          \/ \E n \in 1..(Len(o) - 1) :
                /\ Len(adds) = 2
                /\ diff = [NoDiff EXCEPT !.original = o,
                          !.patch = RemovesThenAdds(n, o[n], o[n + 1], adds)]
          \/ \E n \in 0..(Len(o) + 1) :
                /\ adds = <<"x">>
                /\ diff = [NoDiff EXCEPT !.original = o,
                          !.patch = RemoveAt(n, "a")]
          \/ \E n1 \in 1..Len(o), n2 \in 1..Len(o) :
                /\ n1 < n2
                /\ adds = <<"x", "y">>
                /\ diff = [NoDiff EXCEPT !.original = o,
                          !.patch = TwoHunks(n1, o[n1], "x", n2, o[n2], "y")]

ApplyToString ==
    LET r == _apply_patch_to_string(diff.original, diff.patch) IN
    /\ ~diff.done
    /\ diff' = [diff EXCEPT !.done = TRUE, !.err = r.err, !.lines = r.lines]
    /\ UNCHANGED <<applierVars, approvalVars, healVars, max_attempts, repo,
                   budget, client>>

\* the patch applied to its own result
ApplyAgain ==
    LET r == _apply_patch_to_string(diff.lines, diff.patch) IN
    /\ diff.done /\ ~diff.err /\ ~diff.done2
    /\ diff' = [diff EXCEPT !.done2 = TRUE, !.err2 = r.err,
                            !.lines2 = r.lines]
    /\ UNCHANGED <<applierVars, approvalVars, healVars, max_attempts, repo,
                   budget, client>>

NextDiff == ApplyToString \/ ApplyAgain

SpecDiff == InitDiff /\ [][NextDiff]_vars

TypeOK ==
    /\ current_backup \in 0..Len(backups)
    /\ nTimers \in 0..(MaxRuns + MaxFixes + MaxRedeliver)
    /\ run.attempt <= max_attempts

\* ------------------------------------------------------------------ claims
Last(s) == s[Len(s)]

\* the threads inside patch_applier.commit for run r
Committing(r) == {t \in Threads : th[t].pc = "committing" /\ th[t].run = r}

\* a thread t takes the step that starts git commit, or the step that pushes
StartsCommit(t) == th[t].pc = "commit" /\ th'[t].pc = "committing"
Pushes(t) == th[t].pc = "push" /\ th'[t].pc = "done"

\* C1: for every ticket at most one caller of approve_and_push commits,
\* pushes or rolls back; the side that loses the race between the timer
\* callback and a manual decision does nothing.
C1_OneResolution ==
    \A r \in RunIds : Cardinality(acted[r]) <= 1

\* C2: an attempt of the repair loop that wrote the patched content to the
\* target file has, when it is over, its backup restored or discarded by a
\* successful commit (a passed fix that waits for approval is still open).
C2_RestoredOrDiscarded ==
    (/\ run.pc \in {"loop", "finish", "done"}
     /\ run.last.wrote
     /\ ~(run.last.status = "SUCCESS" /\ ~run.last.auto_merged))
    => run.last.backup \in {"restored", "discarded"}

\* C3: no two live backups (not consumed by a rollback or a commit) exist
\* for the same target path.
C3_OneLiveBackup ==
    \A i, j \in 1..Len(backups) :
        (i # j /\ i \notin consumed /\ j \notin consumed)
        => backups[i].file # backups[j].file

\* every attempt made so far went through evaluation and got RETRY
AlwaysRetry ==
    /\ run.id # 0
    /\ run.pc \in {"loop", "done"}
    /\ run.attempt = Len(run.previous_attempts)
    /\ \A i \in 1..Len(run.previous_attempts) :
           run.previous_attempts[i] = RetryRecord("")

\* C4: when every evaluation yields RETRY, heal ends with
\* MAX_ATTEMPTS_REACHED after exactly max_attempts attempt records, a
\* restore has happened in every attempt, and the target file holds the
\* content it had when the run started.
C4_ExhaustedAfterN ==
    AlwaysRetry =>
        /\ run.restores = Len(run.previous_attempts)
        /\ files[run.file] = run.start
        /\ Len(run.previous_attempts) <= max_attempts
        /\ run.pc = "done" =>
              /\ run.status = "MAX_ATTEMPTS_REACHED"
              /\ logged[run.id].status = "MAX_ATTEMPTS_REACHED"
              /\ Len(run.previous_attempts) = max_attempts

C4_Witness ==
    /\ AlwaysRetry
    /\ run.pc = "done"
    /\ max_attempts = MaxN
    /\ Len(run.previous_attempts) = MaxN
    /\ run.restores = MaxN
    /\ Len(backups) = MaxN

\* C5: a rejection that approve_and_push reports as successful leaves the
\* ticket's own target file with the content it had before the patch.
C5_RejectRestoresOwn ==
    [][\A t \in Threads :
          (/\ th[t].pc = "reject"
           /\ th'[t].pc = "done"
           /\ pending_approvals[th[t].run].present)
          => files'[pending_approvals[th[t].run].file]
                 = pending_approvals[th[t].run].pre]_vars

\* the patch cannot be applied to the content or gives a text that does
\* not parse
Rejects(patch, content) ==
    LET r == _apply_patch_to_string(content, patch)
    IN  r.err \/ ~SyntaxOK(r.lines)

\* C6: a patch that dry_apply rejects never reaches apply; the attempt that
\* ends with phase "validation" is a RETRY, leaves the files on disk as
\* they are and creates no backup.
C6_ValidationNoWrite ==
    [][/\ run'.pc = "apply" => ~Rejects(run'.patch, files'[run'.file])
       /\ (/\ Len(run'.previous_attempts) = Len(run.previous_attempts) + 1
           /\ Last(run'.previous_attempts).phase = "validation")
          => /\ Last(run'.previous_attempts).status = "RETRY"
             /\ files' = files
             /\ backups' = backups
             /\ current_backup' = current_backup]_vars

C6_Witness ==
    /\ run.pc = "loop"
    /\ run.attempt = 1
    /\ Len(run.previous_attempts) = 1
    /\ run.previous_attempts[1] = RetryRecord("validation")
    /\ files[run.file] = run.start
    /\ backups = <<>>

\* C7: a Timer thread never commits or pushes under a ticket whose risk is
\* MEDIUM or HIGH.
C7_TimerOnlyLowRisk ==
    \A t \in Timers :
        th[t].pc \in {"committing", "push"} => th[t].risk = "LOW"

\* C8: a call of approve_and_push that arrives after the ticket has been
\* resolved by an earlier call does not go on to commit, push or roll back.
C8_LateCallDoesNothing ==
    \A t \in Threads :
        th[t].late => th[t].pc \notin {"reject", "commit", "committing",
                                         "push"}

\* C9: once a ticket has been resolved manually, no Timer thread starts a
\* commit or pushes for that ticket.
C9_TimerSilentAfterManual ==
    [][\A t \in Timers :
          (StartsCommit(t) \/ Pushes(t))
          => resolvedBy[th[t].run] # "manual"]_vars

\* C10: at no time are two threads inside patch_applier.commit for the
\* same run.
C10_NoConcurrentCommit ==
    \A r \in RunIds : Cardinality(Committing(r)) <= 1

\* C11: when a call of approve_and_push returns a commit or push failure,
\* the ticket is no longer pending (it keeps its approved resolution and
\* cannot be resolved again).
C11_FailureKeepsResolution ==
    [][\A t \in Threads :
          (/\ th[t].pc \in {"committing", "push"}
           /\ th'[t].pc = "done"
           /\ th'[t].ret \in {"commit_failed", "push_failed"})
          => ~pending_approvals'[th[t].run].present]_vars

\* C12: a successful rollback that directly follows a successful apply
\* (backup, then overwrite) leaves the target with exactly the content it
\* had before the apply, whatever that content is, and touches no other
\* file.
C12_RoundTrip ==
    [][(/\ client.op = "apply" /\ client.success
        /\ client'.op = "rollback" /\ client'.success)
       => /\ files'[client.file] = client.pre
          /\ \A f \in Files \ {client.file} : files'[f] = files[f]]_vars

\* a round trip on a file without final newline or on the empty file
C12_Witness ==
    /\ client.op = "rollback" /\ client.success
    /\ client.pre \in {<<"a">>, <<"">>}
    /\ files[client.file] = client.pre
    /\ Len(backups) > 0
    /\ backups[Len(backups)].content = client.pre

\* C13: a rollback called directly after a successful rollback changes
\* neither the files nor the backup state and reports the no-op as a
\* success, not as a failure.
C13_SecondRollbackNoOp ==
    [][(/\ client.op = "rollback" /\ client.success
        /\ client'.op = "rollback" /\ client'.n = client.n + 1)
       => /\ files' = files
          /\ backups' = backups
          /\ current_backup' = current_backup
          /\ consumed' = consumed
          /\ client'.success]_vars

\* C14: whatever is raised inside an attempt ends up in the attempt
\* history as a retry record (status RETRY, with the strategy the planner
\* of the next attempt reads), and the run goes on: every record of the
\* history is such a record.
C14_ExceptionBecomesRetry ==
    \A i \in 1..Len(run.previous_attempts) :
        /\ run.previous_attempts[i].status = "RETRY"
        /\ run.previous_attempts[i].strategy

\* C15: a finished heal has one of the terminal statuses succeeded,
\* escalated, exhausted (the code knows no BackupConflict fault).
C15_TerminalStatuses ==
    run.pc = "done" =>
        run.status \in {"SUCCESS", "ESCALATED", "MAX_ATTEMPTS_REACHED"}

\* C16: the result recorded for a finished run carries every retry and
\* error record of the run, in attempt order.
C16_FullHistory ==
    run.pc = "done" => logged[run.id].attempts = run.previous_attempts

\* a backup of file f that no rollback and no commit has consumed
LiveBackup(f) ==
    \E i \in 1..Len(backups) : i \notin consumed /\ backups[i].file = f

\* C17: the apply of a run on a file that already owns a live backup
\* writes nothing and takes no backup (the run fails fast).
C17_SecondRunFailsFast ==
    [][(/\ run.pc = "apply"
        /\ run'.pc # "apply"
        /\ LiveBackup(run.file))
       => /\ files'[run.file] = files[run.file]
          /\ backups' = backups
          /\ current_backup' = current_backup]_vars

\* C18: a patch of more than max_patch_lines changed lines is never
\* applied to the target file (and so never tested).
C18_SizeCheckedBeforeApply ==
    run.pc = "test"
        => _extract_patch_metadata(run.patch) <= max_patch_lines

\* the patch of diff is one context line followed by added lines
IsContextThenAdds ==
    /\ diff.patch[2].m = " "
    /\ \A k \in 3..(Len(diff.patch) - 1) : diff.patch[k].m = "+"

\* the patch of diff is remove, remove, add, add
IsRemovesThenAdds ==
    /\ Len(diff.patch) = 6
    /\ diff.patch[2].m = "-" /\ diff.patch[3].m = "-"
    /\ diff.patch[4].m = "+" /\ diff.patch[5].m = "+"

\* the texts of the body lines k..l of the patch of diff
PatchTexts(k, l) == [j \in 1..(l - k + 1) |-> diff.patch[k + j - 1].t]

\* C19: a hunk of one context line followed by added lines puts the added
\* lines, in order, directly after the line the context matches and leaves
\* all other lines as they are; the scenario text a / def f(): / b with
\* two added lines gives a / def f(): / x = 1 / y = 2 / b.
C19_ContextThenAdds ==
    (diff.done /\ IsContextThenAdds) =>
        LET o == diff.original
            n == diff.patch[1].new
        IN  /\ ~diff.err
            /\ diff.lines = SubSeq(o, 1, n)
                   \o PatchTexts(3, Len(diff.patch) - 1)
                   \o SubSeq(o, n + 1, Len(o))
            /\ (/\ o = <<"a", "def f():", "b", "">>
                /\ diff.patch = ContextThenAdds(2, "def f():",
                                    <<"    x = 1", "    y = 2">>))
               => diff.lines = <<"a", "def f():", "    x = 1", "    y = 2",
                                 "b", "">>

C19_Witness ==
    /\ diff.done
    /\ diff.original = <<"a", "def f():", "b", "">>
    /\ diff.patch = ContextThenAdds(2, "def f():",
                        <<"    x = 1", "    y = 2">>)
    /\ diff.lines = <<"a", "def f():", "    x = 1", "    y = 2", "b", "">>

\* C20: a hunk remove, remove, add, add at position p replaces the lines p
\* and p+1 of the text by the two added lines, in order, and keeps all
\* other lines in their order.
C20_RemovesThenAdds ==
    (diff.done /\ IsRemovesThenAdds) =>
        LET o == diff.original
            p == diff.patch[1].new
        IN  /\ ~diff.err
            /\ diff.lines = SubSeq(o, 1, p - 1)
                   \o <<diff.patch[4].t, diff.patch[5].t>>
                   \o SubSeq(o, p + 2, Len(o))

C20_Witness ==
    /\ diff.done
    /\ IsRemovesThenAdds
    /\ diff.patch[1].new = 2
    /\ diff.original = <<"a", "b", "a">>
    /\ diff.lines = <<"a", "x", "y">>

\* C21: when a patch applies to a content and validates, applying it again
\* to the result is either rejected or gives the result unchanged.
C21_NotDoubleAppliable ==
    (diff.done2 /\ ~Rejects(diff.patch, diff.original))
    => \/ diff.err2
       \/ ~SyntaxOK(diff.lines2)
       \/ diff.lines2 = diff.lines

\* C22: when the rollback of an attempt that ends in RETRY has failed, the
\* attempt record says so.
C22_RestoreFailureVisible ==
    (/\ run.pc \in {"loop", "done"}
     /\ run.last.status = "RETRY"
     /\ run.last.rollback = "failed")
    => Last(run.previous_attempts).restore_failure

\* C23: a low-risk ticket that gets no manual decision is in the end
\* committed and pushed by its Timer and leaves pending_approvals.
C23_LowRiskAutoApproved ==
    \A r \in RunIds :
        (pending_approvals[r].present /\ pending_approvals[r].risk = "LOW")
            ~> ~pending_approvals[r].present

\* the Timer of run 1 has run to its end and the ticket is gone
C23_Witness ==
    /\ logged[1].status = "SUCCESS"
    /\ nTimers = 1
    /\ th[1].pc = "done" /\ th[1].run = 1
    /\ ~pending_approvals[1].present
    /\ resolvedBy[1] = "timer"
    /\ acted[1] = {1}

\* the patch of the run under SpecDiff is one made by TwoHunks
IsTwoHunks ==
    /\ Len(diff.patch) = 7
    /\ diff.patch[1].m = "@@"
    /\ diff.patch[4].m = "@@"

\* C24: a patch of two hunks in ascending order, each a context line
\* followed by an added line, applies without error and gives the content
\* the diff describes: each added line directly after its own context line
\* of the original.
C24_RunningOffset ==
    (diff.done /\ IsTwoHunks)
    => LET o == diff.original
           n1 == diff.patch[1].new
           n2 == diff.patch[4].new - 1
       IN  /\ ~diff.err
           /\ diff.lines = SubSeq(o, 1, n1) \o <<diff.patch[3].t>>
                               \o SubSeq(o, n1 + 1, n2)
                               \o <<diff.patch[6].t>>
                               \o SubSeq(o, n2 + 1, Len(o))

\* C25: once an attempt of a run has yielded SUCCESS or ESCALATE, the run
\* executes no further attempt: it leaves the loop, and its attempt counter
\* stays as it is.
C25_OutcomeEndsRun ==
    [][(/\ run.last.status \in {"SUCCESS", "ESCALATE"}
        /\ run'.id = run.id)
       => /\ run'.pc # "loop"
          /\ run'.attempt = run.attempt]_vars

\* C26: a step of a run changes no file but its target, and changes the
\* target either in apply, after dry_apply has accepted the patch in this
\* attempt and in the step that adds a backup holding the content the file
\* had on disk, or afterwards by copying back the backup of this attempt.
C26_BackupBeforeWrite ==
    [][\A f \in Files :
          files'[f] # files[f]
          => /\ f = run.file
             /\ \/ /\ run.pc = "apply"
                   /\ run.new_content # <<>>
                   /\ ~Rejects(run.patch, files[f])
                   /\ Len(backups') = Len(backups) + 1
                   /\ Last(backups') = [file |-> f, content |-> files[f]]
                   /\ run'.bk = Len(backups')
                \/ /\ run.pc = "test"
                   /\ run.bk \in 1..Len(backups)
                   /\ backups[run.bk].file = f
                   /\ files'[f] = backups[run.bk].content]_vars

\* apply has written the target after the backup of the attempt was made
C26_Witness ==
    /\ run.pc = "test"
    /\ run.bk = Len(backups)
    /\ backups[run.bk] = [file |-> run.file, content |-> run.pre]
    /\ files[run.file] # run.pre
    /\ files[run.file] = run.new_content

\* the patch of diff is one made by RemoveAt
IsRemoveAt ==
    /\ Len(diff.patch) = 3
    /\ diff.patch[2].m = "-"

\* C27: a hunk that removes a line and starts outside the lines of the
\* content (at 0, or past the last line) is rejected.
C27_RemoveOutsideRejected ==
    (/\ diff.done
     /\ IsRemoveAt
     /\ diff.patch[1].new \notin 1..Len(diff.original))
    => diff.err

\* C28: the content apply writes to the target is the content dry_apply
\* has validated in the same attempt.
C28_WritesValidatedContent ==
    [][(run.pc = "apply" /\ run'.pc = "test")
       => files'[run.file] = run.new_content]_vars

\* C29: whenever the run is about to start a further attempt, the planner
\* can build its summary of the previous attempts.
C29_PlannerSurvivesError ==
    (run.pc = "loop" /\ run.attempt < max_attempts)
    => ~PlannerRaises(run.previous_attempts)

\* C30: no caller of approve_and_push reaches the commit for a run that
\* the manager has auto-merged, i.e. committed already.
C30_CommittedOnce ==
    \A t \in Threads :
        th[t].pc = "committing"
        => ~(run.id = th[t].run /\ run.last.auto_merged)
====
